---- MODULE Spec2Model ----
(***************************************************************************)
(* Model of send-to-google-drive.py: one BotBackup instance, its scheduler *)
(* loop (run), one backup cycle (do_backup) and the two retention passes   *)
(* (clean_local_backups, delete_old_backups_by_count); the archiver        *)
(* (custom_zip_folder) over source trees; and two bots whose threads       *)
(* interleave (main).                                                      *)
(*                                                                         *)
(* The local backup root and the Drive parent folder are sequences: the    *)
(* order of a sequence is the order in which os.listdir / files().list     *)
(* return the entries, which the code then sorts with Python's stable sort.*)
(* Times are integers (seconds); Drive's createdTime is an RFC 3339 string *)
(* whose lexicographic order is the chronological order.                   *)
(***************************************************************************)
EXTENDS Integers, Sequences, FiniteSets

(* ------------------------------ bounds --------------------------------- *)
MaxCycles == 3        \* cycles the scheduler loop is followed for
MaxLen == 4           \* entries in a listing handed to a retention pass
MaxTime == 4          \* creation times of those entries are in 1..MaxTime
NegKeep == 2          \* keep counts explored go down to -NegKeep
MaxKeep == 4          \* and up to MaxKeep
MaxFiles == 2         \* files in a source tree handed to the archiver
MaxDuoCycles == 2     \* cycles two bots are followed for, in all

(* ------------------------- program constants --------------------------- *)
SecondsPerMinute == 60
PageSize == 1000      \* pageSize of the files().list call

Intervals == {30, 60}            \* backup_interval, in seconds
CycleKeeps == {-1, 0, 1, 2}      \* local_keep / drive_keep of the cycle model
KeepCounts == (0 - NegKeep)..MaxKeep   \* keep counts of the retention model

\* Names are sequences of characters, paths are sequences of names.
FileNames == {<<"a">>, <<"z">>, <<"a", "z">>, <<"z", "a">>}
DirNames == {<<"a">>, <<"z">>}
Extensions == {<<"z">>, <<"a", "z">>, <<>>}

\* the files of a source tree, by their path below the source root
AllPaths ==
    {<<f>> : f \in FileNames}
        \cup {<<d, f>> : d \in DirNames, f \in FileNames}
        \cup {<<d, e, f>> : d \in DirNames, e \in DirNames, f \in FileNames}

\* os.path.abspath(source_folder)
SourcePath == <<<<"s", "r", "v">>, <<"d">>>>

\* folder_to_zip as the archiver finds it
NoSource == [kind |-> "missing", files |-> {}]
NotADir == [kind |-> "file", files |-> {}]
SomeTree ==
    [kind |-> "dir",
     files |-> {<<<<"a">>>>, <<<<"z">>, <<"a">>>>, <<<<"a">>, <<"a", "z">>>>}]

VARIABLES
    pc,                 \* position of the bot's thread in run / do_backup
    now,                \* wall clock read by datetime.now() / utcnow()
    cycles,             \* number of do_backup invocations started
    interval,           \* self.backup_interval, in seconds
    local_keep,         \* self.local_keep
    drive_keep,         \* self.drive_keep
    folder_to_zip,      \* what is at self.folder_to_zip: kind and files
    excluded_folders,   \* self.excluded_folders
    excluded_extensions,\* self.excluded_extensions
    local_backup_root,  \* sub-directories of self.local_backup_root
    parent_folder,      \* Drive folders whose parent is parent_folder_id
    log,                \* markers logged since do_backup was last entered
    done,               \* steps of the current cycle that returned normally
    failedAt,           \* call of the current cycle that raised, or "none"
    to_remove,          \* to_remove of the last clean_local_backups call
    removed_local,      \* directories logged "Supprime local" in this cycle
    to_delete,          \* to_delete of the last delete_old_backups_by_count
    removed_drive,      \* folders logged "Supprime Drive" in this cycle
    parent_folder_id,   \* the Drive folder self.parent_folder_id names
    self,               \* the bot whose thread is running
    peer                \* the other bot of config.yaml while its thread waits

vars == <<pc, now, cycles, interval, local_keep, drive_keep,
          folder_to_zip, excluded_folders, excluded_extensions,
          local_backup_root, parent_folder, log, done, failedAt,
          to_remove, removed_local, to_delete, removed_drive,
          parent_folder_id, self, peer>>

\* cfg["parent_folder_id"] of bot b, and the folder it names: the folders it
\* lies in, and whether it still exists
ParentId(b) == 0 - b

ParentFolder(b, parents) == [id |-> ParentId(b), parents |-> parents, exists |-> TRUE]

\* a configuration with a single bot
NoPeer == [pc |-> "none"]

(* ------------------------------ helpers -------------------------------- *)
Min(a, b) == IF a < b THEN a ELSE b

Max(a, b) == IF a > b THEN a ELSE b

Range(s) == {s[i] : i \in DOMAIN s}

InSeq(x, s) == \E i \in DOMAIN s : s[i] = x

\* s[a:] of a Python list
PySliceFrom(s, a) ==
    LET n  == Len(s)
        lo == IF a < 0 THEN Max(n + a, 0) ELSE Min(a, n)
    IN  SubSeq(s, lo + 1, n)

\* s[:b] of a Python list
PySliceTo(s, b) ==
    LET n  == Len(s)
        hi == IF b < 0 THEN Max(n + b, 0) ELSE Min(b, n)
    IN  SubSeq(s, 1, hi)

\* subs.sort(key=getctime, reverse=True): stable, equal keys keep their order
SortByCtimeDesc(subs) ==
    LET n == Len(subs)
        pos(i) == 1 + Cardinality({j \in 1..n :
                        \/ subs[j].ctime > subs[i].ctime
                        \/ subs[j].ctime = subs[i].ctime /\ j < i})
    IN  [r \in 1..n |-> subs[CHOOSE i \in 1..n : pos(i) = r]]

\* the same sort without reverse=True
SortByCtimeAsc(subs) ==
    LET n == Len(subs)
        pos(i) == 1 + Cardinality({j \in 1..n :
                        \/ subs[j].ctime < subs[i].ctime
                        \/ subs[j].ctime = subs[i].ctime /\ j < i})
    IN  [r \in 1..n |-> subs[CHOOSE i \in 1..n : pos(i) = r]]

\* files.sort(key=createdTime): stable, ascending (a list that is already
\* in order is returned as it is)
SortByCreatedTime(files) ==
    LET n == Len(files)
        pos(i) == 1 + Cardinality({j \in 1..n :
                        \/ files[j].createdTime < files[i].createdTime
                        \/ files[j].createdTime = files[i].createdTime /\ j < i})
    IN  IF \A i \in 1..(n - 1) : files[i].createdTime <= files[i + 1].createdTime
        THEN files
        ELSE [r \in 1..n |-> files[CHOOSE i \in 1..n : pos(i) = r]]

\* a retention selection that sorts the wrong way round
LocalToRemoveAscending(subs, keep) == PySliceFrom(SortByCtimeAsc(subs), keep)

\* subs.sort(reverse=True); to_remove = subs[self.local_keep:]
LocalToRemove(subs, keep) == PySliceFrom(SortByCtimeDesc(subs), keep)

\* a retention selection cut from the wrong end of the list
RemoteToDeleteNewest(files, keep) == PySliceFrom(SortByCreatedTime(files), keep)

\* a retention selection that keeps one folder too many
RemoteToDeleteOffByOne(files, keep) ==
    PySliceTo(SortByCreatedTime(files), (0 - keep) - 1)

\* files.sort(); to_delete = files[:-self.drive_keep]
RemoteToDelete(files, keep) == PySliceTo(SortByCreatedTime(files), 0 - keep)

\* resp.get("files") of the one files().list call: a single page of at most
\* pageSize folders, nextPageToken is not followed. The query gives no
\* orderBy, so which folders a short page holds is up to the service: the
\* oldest pageSize or the newest pageSize are the two outcomes kept here.
FirstPage(folders) ==
    IF Len(folders) <= PageSize
    THEN {folders}
    ELSE {SubSeq(folders, 1, PageSize),
          SubSeq(folders, Len(folders) - PageSize + 1, Len(folders))}

\* local_name of do_backup: the timestamp down to the minute
LocalName(t) == t \div SecondsPerMinute

\* ts of do_backup: the timestamp down to the second
ZipName(t) == t

HasDir(name) == \E i \in DOMAIN local_backup_root : local_backup_root[i].name = name

\* the files at zip_path: the zips of the cycle's local folder named zip_name
AtZipPath ==
    UNION {{z \in local_backup_root[i].zips : z.name = ZipName(now)} :
              i \in {j \in DOMAIN local_backup_root :
                         local_backup_root[j].name = LocalName(now)}}

\* os.path.getsize(zip_path) finds the file
ZipPathExists == AtZipPath # {}

\* fname.endswith(ext)
EndsWith(name, ext) ==
    /\ Len(ext) <= Len(name)
    /\ SubSeq(name, Len(name) - Len(ext) + 1, Len(name)) = ext

IsPrefix(d, p) == Len(d) <= Len(p) /\ SubSeq(p, 1, Len(d)) = d

\* os.path.relpath(full_path, start=abs_src)
RelPath(full, start) == SubSeq(full, Len(start) + 1, Len(full))

\* the archive members written while os.walk visits directory d of the
\* tree: the files of d that end with no excluded extension, then the walk
\* of every sub-directory of d whose name is not excluded
RECURSIVE ZipWalk(_, _, _, _)
ZipWalk(files, d, folders, exts) ==
    LET here == {p \in files : IsPrefix(d, p) /\ Len(p) = Len(d) + 1}
        dirs == {p[Len(d) + 1] : p \in {q \in files :
                                    IsPrefix(d, q) /\ Len(q) > Len(d) + 1}}
        kept == {p \in here : ~\E x \in exts : EndsWith(p[Len(p)], x)}
    IN  {RelPath(SourcePath \o p, SourcePath) : p \in kept}
            \cup UNION {ZipWalk(files, Append(d, n), folders, exts) :
                          n \in dirs \ folders}

\* an archiver that stores members under their full path
ZipMembersFullPath(files, folders, exts) ==
    {SourcePath \o p : p \in ZipWalk(files, <<>>, folders, exts)}

\* the members of the archive custom_zip_folder writes
ZipMembers(files, folders, exts) == ZipWalk(files, <<>>, folders, exts)

(* --------------------------- initial states ---------------------------- *)
\* BotBackup.__init__ followed by threading.Thread(target=bot.run).start()
Init ==
    /\ pc = "run"
    /\ now = 0
    /\ cycles = 0
    /\ interval \in Intervals
    /\ local_keep \in CycleKeeps
    /\ drive_keep \in CycleKeeps
    /\ folder_to_zip \in {NoSource, NotADir, SomeTree}
    /\ excluded_folders = {<<"z">>}
    /\ excluded_extensions = {<<"z">>}
    /\ local_backup_root = <<>>
    /\ parent_folder = <<>>
    /\ log = <<>>
    /\ done = <<>>
    /\ failedAt = "none"
    /\ to_remove = <<>>
    /\ removed_local = <<>>
    /\ to_delete = <<>>
    /\ removed_drive = <<>>
    /\ parent_folder_id = ParentFolder(1, {})
    /\ self = 1
    /\ peer = NoPeer

config == <<interval, local_keep, drive_keep,
            folder_to_zip, excluded_folders, excluded_extensions>>

passVars == <<to_remove, removed_local, to_delete, removed_drive>>

duo == <<parent_folder_id, self, peer>>

(* ------------------------------- run ----------------------------------- *)
\* run(): the interval is computed, then the loop is entered
Run ==
    /\ pc = "run"
    /\ pc' = "naming"
    /\ UNCHANGED <<now, cycles, config, duo, local_backup_root, parent_folder,
                   log, done, failedAt, passVars>>

\* time.sleep(interval), then the next iteration of while True
Sleep ==
    /\ pc = "sleep"
    /\ cycles < MaxCycles
    /\ now' = now + interval
    /\ pc' = "naming"
    /\ UNCHANGED <<cycles, config, duo, local_backup_root, parent_folder,
                   log, done, failedAt, passVars>>

(* ----------------------------- do_backup ------------------------------- *)
\* a scheduler whose loop has no try/except: an escaping error ends the thread
NamingUnguarded ==
    /\ pc = "naming"
    /\ cycles' = cycles + 1
    /\ done' = <<>>
    /\ to_remove' = <<>>
    /\ removed_local' = <<>>
    /\ to_delete' = <<>>
    /\ removed_drive' = <<>>
    /\ \/ /\ local_backup_root' =
                IF HasDir(LocalName(now)) THEN local_backup_root
                ELSE Append(local_backup_root,
                            [name |-> LocalName(now), ctime |-> now, zips |-> {}])
          /\ log' = <<"DEBUT">>
          /\ failedAt' = "none"
          /\ pc' = "zip"
       \/ /\ local_backup_root' = local_backup_root
          /\ log' = <<>>
          /\ failedAt' = "makedirs"
          /\ pc' = "dead"
    /\ UNCHANGED <<now, config, duo, parent_folder>>

\* do_backup up to the cycle-start marker: local_name, os.makedirs, zip name.
\* os.makedirs is outside the try block: when it raises, the error leaves
\* do_backup and is caught and logged by run(), which goes on to sleep.
Naming ==
    /\ pc = "naming"
    /\ cycles' = cycles + 1
    /\ done' = <<>>
    /\ to_remove' = <<>>
    /\ removed_local' = <<>>
    /\ to_delete' = <<>>
    /\ removed_drive' = <<>>
    /\ \/ /\ local_backup_root' =
                IF HasDir(LocalName(now)) THEN local_backup_root
                ELSE Append(local_backup_root,
                            [name |-> LocalName(now), ctime |-> now, zips |-> {}])
          /\ log' = <<"DEBUT">>
          /\ failedAt' = "none"
          /\ pc' = "zip"
       \/ /\ local_backup_root' = local_backup_root
          /\ log' = <<"INATTENDUE">>
          /\ failedAt' = "makedirs"
          /\ pc' = "sleep"
    /\ UNCHANGED <<now, config, duo, parent_folder>>

\* the except clause of do_backup: log the error, fall through to the end marker
Except(call) ==
    /\ failedAt' = call
    /\ log' = Append(log, "ERREUR")
    /\ pc' = "fin"
    /\ done' = done

\* the cycle's local folder without the file at zip_path, with the files add
WithZips(add) ==
    [i \in DOMAIN local_backup_root |->
        IF local_backup_root[i].name = LocalName(now)
        THEN [local_backup_root[i] EXCEPT
                 !.zips = {z \in @ : z.name # ZipName(now)} \cup add]
        ELSE local_backup_root[i]]

\* the archive of the source tree, and the file left by an interrupted write
NewZip ==
    [name |-> ZipName(now),
     entries |-> ZipMembers(folder_to_zip.files, excluded_folders,
                            excluded_extensions)]

PartialZip == [name |-> ZipName(now), entries |-> {}]

\* an archiver whose failure is swallowed: the cycle goes on to authenticate
CustomZipFolderSwallow ==
    /\ pc = "zip"
    /\ IF folder_to_zip.kind # "dir"
       THEN /\ local_backup_root' = WithZips({})
            /\ failedAt' = "notadir"
            /\ log' = Append(log, "ERREUR")
            /\ done' = done
            /\ pc' = "auth"
       ELSE /\ local_backup_root' = WithZips({NewZip})
            /\ done' = Append(done, "zip")
            /\ pc' = "auth"
            /\ UNCHANGED <<log, failedAt>>
    /\ UNCHANGED <<now, cycles, config, duo, parent_folder, passVars>>

\* an archiver that opens the zip file before it looks at the source
CustomZipFolderOpensFirst ==
    /\ pc = "zip"
    /\ IF folder_to_zip.kind # "dir"
       THEN /\ local_backup_root' = WithZips({PartialZip})
            /\ Except("notadir")
       ELSE /\ local_backup_root' = WithZips({NewZip})
            /\ done' = Append(done, "zip")
            /\ pc' = "auth"
            /\ UNCHANGED <<log, failedAt>>
    /\ UNCHANGED <<now, cycles, config, duo, parent_folder, passVars>>

\* custom_zip_folder: an old file at zip_path is removed; then, when the
\* source is no directory, FileNotFoundError is raised and no file is
\* written; else the archive is written, or writing fails after the file
\* was opened
CustomZipFolder ==
    /\ pc = "zip"
    /\ IF folder_to_zip.kind # "dir"
       THEN /\ local_backup_root' = WithZips({})
            /\ Except("notadir")
       ELSE \/ /\ local_backup_root' = WithZips({NewZip})
               /\ done' = Append(done, "zip")
               /\ pc' = "auth"
               /\ UNCHANGED <<log, failedAt>>
            \/ /\ local_backup_root' = WithZips({PartialZip})
               /\ Except("zip")
    /\ UNCHANGED <<now, cycles, config, duo, parent_folder, passVars>>

\* authenticate() and build()
Authenticate ==
    /\ pc = "auth"
    /\ \/ /\ done' = Append(done, "auth")
          /\ pc' = "create"
          /\ UNCHANGED <<log, failedAt>>
       \/ Except("auth")
    /\ UNCHANGED <<now, cycles, config, duo, local_backup_root, parent_folder, passVars>>

\* create_drive_folder: Drive assigns a fresh id and the creation time; the
\* call raises when the parent folder is no longer there
CreateDriveFolder ==
    /\ pc = "create"
    /\ \/ /\ parent_folder_id.exists
          /\ parent_folder' = Append(parent_folder,
                [id |-> cycles, createdTime |-> now, files |-> {}])
          /\ done' = Append(done, "create")
          /\ pc' = "upload"
          /\ UNCHANGED <<log, failedAt>>
       \/ /\ parent_folder' = parent_folder
          /\ Except("create")
    /\ UNCHANGED <<now, cycles, config, duo, local_backup_root, passVars>>

\* an upload whose failure does not abort the cycle
UploadFileToFolderContinue ==
    /\ pc = "upload"
    /\ \/ /\ \E i \in DOMAIN parent_folder : parent_folder[i].id = cycles
          /\ parent_folder' =
                [i \in DOMAIN parent_folder |->
                    IF parent_folder[i].id = cycles
                    THEN [parent_folder[i] EXCEPT !.files = @ \cup {ZipName(now)}]
                    ELSE parent_folder[i]]
          /\ done' = Append(done, "upload")
          /\ pc' = "clean_local"
          /\ UNCHANGED <<log, failedAt>>
       \/ /\ parent_folder' = parent_folder
          /\ failedAt' = "upload"
          /\ log' = Append(log, "ERREUR")
          /\ done' = done
          /\ pc' = "clean_local"
    /\ UNCHANGED <<now, cycles, config, duo, local_backup_root, passVars>>

\* upload_file_to_folder: the zip is stored in the folder just created; the
\* call raises when that folder is no longer there
UploadFileToFolder ==
    /\ pc = "upload"
    /\ \/ /\ \E i \in DOMAIN parent_folder : parent_folder[i].id = cycles
          /\ parent_folder' =
                [i \in DOMAIN parent_folder |->
                    IF parent_folder[i].id = cycles
                    THEN [parent_folder[i] EXCEPT !.files = @ \cup {ZipName(now)}]
                    ELSE parent_folder[i]]
          /\ done' = Append(done, "upload")
          /\ pc' = "clean_local"
          /\ UNCHANGED <<log, failedAt>>
       \/ /\ parent_folder' = parent_folder
          /\ Except("upload")
    /\ UNCHANGED <<now, cycles, config, duo, local_backup_root, passVars>>

\* a local pass that prunes with the keep count of the remote pass
CleanLocalBackupsDriveKeep ==
    /\ pc = "clean_local"
    /\ LET sel == LocalToRemove(local_backup_root, drive_keep) IN
       \E k \in 0..Len(sel) :
          LET gone == SubSeq(sel, 1, k)
              Stays(d) == ~InSeq(d, gone)
          IN  /\ to_remove' = sel
              /\ removed_local' = gone
              /\ local_backup_root' = SelectSeq(local_backup_root, Stays)
              /\ IF k = Len(sel)
                 THEN /\ done' = Append(done, "clean_local")
                      /\ pc' = "delete_old"
                      /\ UNCHANGED <<log, failedAt>>
                 ELSE Except("rmtree")
    /\ UNCHANGED <<now, cycles, config, duo, parent_folder, to_delete, removed_drive>>

\* clean_local_backups: the selection is removed entry by entry; the loop has
\* no error handling, so the first shutil.rmtree that raises ends the pass
\* (k entries were removed, entry k+1 raised and stays)
CleanLocalBackups ==
    /\ pc = "clean_local"
    /\ LET sel == LocalToRemove(local_backup_root, local_keep) IN
       \E k \in 0..Len(sel) :
          LET gone == SubSeq(sel, 1, k)
              Stays(d) == ~InSeq(d, gone)
          IN  /\ to_remove' = sel
              /\ removed_local' = gone
              /\ local_backup_root' = SelectSeq(local_backup_root, Stays)
              /\ IF k = Len(sel)
                 THEN /\ done' = Append(done, "clean_local")
                      /\ pc' = "delete_old"
                      /\ UNCHANGED <<log, failedAt>>
                 ELSE Except("rmtree")
    /\ UNCHANGED <<now, cycles, config, duo, parent_folder, to_delete, removed_drive>>

\* files().delete(fileId) of a folder removes the folder with all it holds:
\* when the deleted folders include the one the other bot uploads to, that
\* bot's folders are gone with it
PeerAfter(gone) ==
    IF /\ peer # NoPeer
       /\ \E i \in DOMAIN gone : gone[i].id = peer.parent_folder_id.id
    THEN [peer EXCEPT !.parent_folder = <<>>,
                      !.parent_folder_id = [@ EXCEPT !.exists = FALSE]]
    ELSE peer

\* delete_old_backups_by_count: files().list may raise; then the selection is
\* deleted entry by entry and the first delete that raises ends the pass.
\* A delete raises either with the folder left in place, or with NotFound
\* because the folder was removed by someone else after the listing.
DeleteOldBackupsByCount ==
    /\ pc = "delete_old"
    /\ \/ /\ Except("list")
          /\ UNCHANGED <<parent_folder, to_delete, removed_drive, peer>>
       \/ \E files \in FirstPage(parent_folder) :
          LET sel == RemoteToDelete(files, drive_keep) IN
          \E k \in 0..Len(sel) :
             LET gone == SubSeq(sel, 1, k)
                 Stays(f) == ~InSeq(f, gone)
                 StaysFound(f) == ~InSeq(f, SubSeq(sel, 1, k + 1))
             IN  /\ to_delete' = sel
                 /\ removed_drive' = gone
                 /\ peer' = PeerAfter(gone)
                 /\ IF k = Len(sel)
                    THEN /\ parent_folder' = SelectSeq(parent_folder, Stays)
                         /\ done' = Append(done, "delete_old")
                         /\ pc' = "bilan"
                         /\ UNCHANGED <<log, failedAt>>
                    ELSE \/ /\ parent_folder' = SelectSeq(parent_folder, Stays)
                            /\ Except("delete")
                         \/ /\ parent_folder' = SelectSeq(parent_folder, StaysFound)
                            /\ Except("notfound")
    /\ UNCHANGED <<now, cycles, config, parent_folder_id, self,
                   local_backup_root, to_remove, removed_local>>

\* the summary: os.path.getsize(zip_path) raises when the zip is gone
Bilan ==
    /\ pc = "bilan"
    /\ IF ZipPathExists
       THEN /\ log' = Append(log, "BACKUP OK")
            /\ done' = Append(done, "bilan")
            /\ pc' = "fin"
            /\ UNCHANGED failedAt
       ELSE Except("getsize")
    /\ UNCHANGED <<now, cycles, config, duo, local_backup_root, parent_folder, passVars>>

\* the cycle-end marker, then do_backup returns to run()
Fin ==
    /\ pc = "fin"
    /\ log' = Append(log, "FIN")
    /\ pc' = "sleep"
    /\ UNCHANGED <<now, cycles, config, duo, local_backup_root, parent_folder,
                   done, failedAt, passVars>>

Next ==
    \/ Run
    \/ Naming
    \/ CustomZipFolder
    \/ Authenticate
    \/ CreateDriveFolder
    \/ UploadFileToFolder
    \/ CleanLocalBackups
    \/ DeleteOldBackupsByCount
    \/ Bilan
    \/ Fin
    \/ Sleep

Spec == Init /\ [][Next]_vars

\* the bot's thread is scheduled and every call it makes returns or raises
FairSpec == Spec /\ WF_vars(Next)

TypeOK ==
    /\ pc \in {"run", "naming", "zip", "auth", "create", "upload",
               "clean_local", "delete_old", "bilan", "fin", "sleep", "dead"}
    /\ cycles \in 0..MaxCycles
    /\ failedAt \in {"none", "makedirs", "notadir", "zip", "auth", "create", "upload",
                     "rmtree", "list", "delete", "notfound", "getsize"}

(* ------------------------- the retention passes ------------------------ *)
\* A cycle that has uploaded and is about to prune, over every listing of at
\* most MaxLen entries (in any listing order, with or without equal creation
\* times) and every keep count, the two keep counts being equal or mirrored
\* in the explored range.
RetInit ==
    \E n \in 0..MaxLen :
    \E ct \in [1..n -> 1..MaxTime] :
        /\ pc = "clean_local"
        /\ now = 0
        /\ cycles = 1
        /\ interval = 60
        /\ local_keep \in KeepCounts
        /\ drive_keep \in {local_keep, (MaxKeep - NegKeep) - local_keep}
        /\ folder_to_zip = SomeTree
        /\ excluded_folders = {<<"z">>}
        /\ excluded_extensions = {<<"z">>}
        /\ local_backup_root = [i \in 1..n |-> [name |-> i, ctime |-> ct[i], zips |-> {}]]
        /\ parent_folder = [i \in 1..n |-> [id |-> i, createdTime |-> ct[i], files |-> {}]]
        /\ log = <<"DEBUT">>
        /\ done = <<"zip", "auth", "create", "upload">>
        /\ failedAt = "none"
        /\ to_remove = <<>>
        /\ removed_local = <<>>
        /\ to_delete = <<>>
        /\ removed_drive = <<>>
        /\ parent_folder_id = ParentFolder(1, {})
        /\ self = 1
        /\ peer = NoPeer
    /\ parent_folder_id = ParentFolder(1, {})
    /\ self = 1
    /\ peer = NoPeer

RetNext ==
    \/ CleanLocalBackups
    \/ DeleteOldBackupsByCount

RetSpec == RetInit /\ [][RetNext]_vars

(* ----------------------------- the archiver ---------------------------- *)
WellFormed(files) ==
    \A p, q \in files : Len(p) < Len(q) => ~IsPrefix(p, q)

\* the sets of at most n paths
RECURSIVE PathSets(_)
PathSets(n) ==
    IF n = 0 THEN {{}}
    ELSE LET s == PathSets(n - 1)
         IN  s \cup {t \cup {p} : t \in s, p \in AllPaths}

Trees == {t \in PathSets(MaxFiles) : WellFormed(t)}

\* A cycle that has named its local folder and is about to archive, over
\* every source (missing, a plain file, or a tree of at most MaxFiles files),
\* every set of excluded folder names and extensions, with or without an
\* old file at zip_path.
ZipInit ==
    /\ pc = "zip"
    /\ now = 0
    /\ cycles = 1
    /\ interval = 60
    /\ local_keep = 1
    /\ drive_keep = 1
    /\ folder_to_zip \in {NoSource, NotADir}
                            \cup {[kind |-> "dir", files |-> t] : t \in Trees}
    /\ excluded_folders \in SUBSET DirNames
    /\ excluded_extensions \in SUBSET Extensions
    /\ \E old \in SUBSET {[name |-> ZipName(0), entries |-> {<<<<"o">>>>}]} :
          local_backup_root = <<[name |-> LocalName(0), ctime |-> 0, zips |-> old]>>
    /\ parent_folder = <<>>
    /\ log = <<"DEBUT">>
    /\ done = <<>>
    /\ failedAt = "none"
    /\ to_remove = <<>>
    /\ removed_local = <<>>
    /\ to_delete = <<>>
    /\ removed_drive = <<>>
    /\ parent_folder_id = ParentFolder(1, {})
    /\ self = 1
    /\ peer = NoPeer

ZipNext ==
    \/ CustomZipFolder
    \/ Fin

ZipSpec == ZipInit /\ [][ZipNext]_vars

(* ------------------------- a long Drive listing ------------------------ *)
\* The n-th cycle of a bot has uploaded and pruned its local folders and is
\* about to prune the Drive folders: the n - 1 cycles before it were aborted
\* at upload and left their empty folders, n being around pageSize.
PageInit ==
    \E n \in (PageSize - 2)..(PageSize + 3) :
        /\ pc = "delete_old"
        /\ now = n * SecondsPerMinute
        /\ cycles = n
        /\ interval = 60
        /\ local_keep = 1
        /\ drive_keep \in (PageSize - 2)..PageSize
        /\ folder_to_zip = SomeTree
        /\ excluded_folders = {<<"z">>}
        /\ excluded_extensions = {<<"z">>}
        /\ local_backup_root =
              <<[name |-> n, ctime |-> n * SecondsPerMinute,
                 zips |-> {[name |-> n * SecondsPerMinute,
                            entries |-> ZipMembers(SomeTree.files, {<<"z">>}, {<<"z">>})]}]>>
        /\ parent_folder =
              [i \in 1..n |-> [id |-> i, createdTime |-> i * SecondsPerMinute,
                               files |-> IF i = n THEN {n * SecondsPerMinute} ELSE {}]]
        /\ log = <<"DEBUT">>
        /\ done = <<"zip", "auth", "create", "upload", "clean_local">>
        /\ failedAt = "none"
        /\ to_remove = <<>>
        /\ removed_local = <<>>
        /\ to_delete = <<>>
        /\ removed_drive = <<>>
        /\ parent_folder_id = ParentFolder(1, {})
        /\ self = 1
        /\ peer = NoPeer
    /\ parent_folder_id = ParentFolder(1, {})
    /\ self = 1
    /\ peer = NoPeer

PageNext ==
    \/ DeleteOldBackupsByCount
    \/ Bilan
    \/ Fin

PageSpec == PageInit /\ [][PageNext]_vars

(* ------------------------------ two bots ------------------------------- *)
\* main() starts one thread per bot of config.yaml. The variables above hold
\* the bot whose thread is running, peer the one whose thread waits; the
\* clock is the only variable the two share.
Saved ==
    [pc |-> pc, cycles |-> cycles, interval |-> interval,
     local_keep |-> local_keep, drive_keep |-> drive_keep,
     folder_to_zip |-> folder_to_zip, excluded_folders |-> excluded_folders,
     excluded_extensions |-> excluded_extensions,
     local_backup_root |-> local_backup_root, parent_folder |-> parent_folder,
     log |-> log, done |-> done, failedAt |-> failedAt,
     to_remove |-> to_remove, removed_local |-> removed_local,
     to_delete |-> to_delete, removed_drive |-> removed_drive,
     parent_folder_id |-> parent_folder_id]

\* the interpreter hands the processor to the other thread
Switch ==
    /\ peer # NoPeer
    /\ self' = 3 - self
    /\ peer' = Saved
    /\ pc' = peer.pc
    /\ cycles' = peer.cycles
    /\ interval' = peer.interval
    /\ local_keep' = peer.local_keep
    /\ drive_keep' = peer.drive_keep
    /\ folder_to_zip' = peer.folder_to_zip
    /\ excluded_folders' = peer.excluded_folders
    /\ excluded_extensions' = peer.excluded_extensions
    /\ local_backup_root' = peer.local_backup_root
    /\ parent_folder' = peer.parent_folder
    /\ log' = peer.log
    /\ done' = peer.done
    /\ failedAt' = peer.failedAt
    /\ to_remove' = peer.to_remove
    /\ removed_local' = peer.removed_local
    /\ to_delete' = peer.to_delete
    /\ removed_drive' = peer.removed_drive
    /\ parent_folder_id' = peer.parent_folder_id
    /\ now' = now

\* a listing that is not restricted to the folders of the bot's own parent
ChildFoldersAnyParent(own, other) ==
    <<[id |-> other.id, createdTime |-> 0, files |-> {}]>>

\* the q of files().list, "'<parent_folder_id>' in parents and mimeType =
\* folder": the other bot's parent folder is listed when it lies in this
\* bot's parent folder
ChildFolders(own, other) ==
    IF own.id \in other.parents
    THEN <<[id |-> other.id, createdTime |-> 0, files |-> {}]>>
    ELSE <<>>

\* the local folder and the Drive folder a bot holds from a backup made
\* one interval before the program was started
EarlierLocal == <<[name |-> LocalName(0), ctime |-> 0,
                   zips |-> {[name |-> ZipName(0),
                              entries |-> ZipMembers(SomeTree.files, {<<"z">>}, {<<"z">>})]}]>>

EarlierRemote == <<[id |-> 0, createdTime |-> 0, files |-> {ZipName(0)}]>>

\* Two bots with the default local roots backup/<name>, which are siblings,
\* and different parent_folder_id: the second bot's parent folder lies
\* either outside the first bot's parent folder or in it.
DuoInit ==
    \E parents \in {{}, {ParentId(1)}} :
        /\ pc = "run"
        /\ now = 60
        /\ cycles = 0
        /\ interval = 60
        /\ local_keep = 1
        /\ drive_keep = 1
        /\ folder_to_zip = SomeTree
        /\ excluded_folders = {<<"z">>}
        /\ excluded_extensions = {<<"z">>}
        /\ local_backup_root = EarlierLocal
        /\ parent_folder =
              ChildFolders(ParentFolder(1, {}), ParentFolder(2, parents))
                  \o EarlierRemote
        /\ log = <<>>
        /\ done = <<>>
        /\ failedAt = "none"
        /\ to_remove = <<>>
        /\ removed_local = <<>>
        /\ to_delete = <<>>
        /\ removed_drive = <<>>
        /\ parent_folder_id = ParentFolder(1, {})
        /\ self = 1
        /\ peer = [pc |-> "run", cycles |-> 0, interval |-> 60,
                   local_keep |-> 1, drive_keep |-> 1,
                   folder_to_zip |-> SomeTree, excluded_folders |-> {<<"z">>},
                   excluded_extensions |-> {<<"z">>},
                   local_backup_root |-> EarlierLocal,
                   parent_folder |->
                       ChildFolders(ParentFolder(2, parents), ParentFolder(1, {}))
                           \o EarlierRemote,
                   log |-> <<>>, done |-> <<>>, failedAt |-> "none",
                   to_remove |-> <<>>, removed_local |-> <<>>,
                   to_delete |-> <<>>, removed_drive |-> <<>>,
                   parent_folder_id |-> ParentFolder(2, parents)]

\* the two bots are followed for MaxDuoCycles cycles in all
DuoNext ==
    \/ Switch
    \/ Run
    \/ (cycles + peer.cycles < MaxDuoCycles /\ Naming)
    \/ CustomZipFolder
    \/ Authenticate
    \/ CreateDriveFolder
    \/ UploadFileToFolder
    \/ CleanLocalBackups
    \/ DeleteOldBackupsByCount
    \/ Bilan
    \/ Fin
    \/ Sleep

DuoSpec == DuoInit /\ [][DuoNext]_vars

(* ------------------------ vocabulary of the claims --------------------- *)
AbortCalls == {"notadir", "zip", "auth", "create", "upload"}

Order == <<"zip", "auth", "create", "upload", "clean_local", "delete_old", "bilan">>

LastLog == IF log = <<>> THEN "none" ELSE log[Len(log)]

\* clean_local_backups computed its selection in this cycle
LocalPassRan == InSeq("clean_local", done) \/ failedAt = "rmtree"

\* delete_old_backups_by_count computed its selection in this cycle
RemotePassRan ==
    InSeq("delete_old", done) \/ failedAt \in {"delete", "notfound"}

\* the entries the pass found: those still there and those it removed
LocalBefore == Range(local_backup_root) \cup Range(removed_local)

\* the folder whose delete answered NotFound: listed, then gone
Vanished ==
    IF failedAt = "notfound" THEN {to_delete[Len(removed_drive) + 1]} ELSE {}

RemoteBefore == Range(parent_folder) \cup Range(removed_drive) \cup Vanished

DistinctCtimes(S) == \A e, f \in S : e # f => e.ctime # f.ctime

DistinctCreatedTimes(S) == \A e, f \in S : e # f => e.createdTime # f.createdTime

\* the entries of S with fewer than m strictly older (newer) entries in S
OldestLocal(S, m) == {e \in S : Cardinality({f \in S : f.ctime < e.ctime}) < m}

NewestLocal(S, m) == {e \in S : Cardinality({f \in S : f.ctime > e.ctime}) < m}

OldestRemote(S, m) ==
    {e \in S : Cardinality({f \in S : f.createdTime < e.createdTime}) < m}

NewestRemote(S, m) ==
    {e \in S : Cardinality({f \in S : f.createdTime > e.createdTime}) < m}

\* the selected entries whose deletion was attempted: the removed ones and,
\* when a deletion raised, the one that raised
AttemptedLocal ==
    SubSeq(to_remove, 1, Min(Len(to_remove), Len(removed_local) + 1))

AttemptedRemote ==
    SubSeq(to_delete, 1, Min(Len(to_delete), Len(removed_drive) + 1))

(* ------------------------------- claims -------------------------------- *)
\* C1: when archiving, authentication, container creation or upload fails,
\* neither pruning pass runs in that cycle and the cycle deletes nothing: the
\* local folder of the cycle and a container it created are still there.
C1_NoPruningAfterAbort ==
    failedAt \in AbortCalls =>
        /\ ~InSeq("clean_local", done)
        /\ ~InSeq("delete_old", done)
        /\ to_remove = <<>> /\ removed_local = <<>>
        /\ to_delete = <<>> /\ removed_drive = <<>>
        /\ pc \in {"fin", "sleep", "naming"}
        /\ HasDir(LocalName(now)) \/ pc = "naming"
        /\ InSeq("create", done) =>
              \E i \in DOMAIN parent_folder :
                  parent_folder[i].id = cycles /\ parent_folder[i].files = {}

\* a cycle aborted at upload although older local folders exceed local_keep
C1_Witness ==
    /\ failedAt = "upload"
    /\ pc = "sleep"
    /\ local_keep = 1
    /\ Len(local_backup_root) >= 2
    /\ Len(parent_folder) >= 2

\* C2: a step of the cycle starts only when all the steps before it, in the
\* order archive, authenticate, create, upload, prune local, prune remote,
\* have returned normally in this cycle.
C2_StepsInOrder ==
    /\ \A i \in DOMAIN Order : pc = Order[i] => done = SubSeq(Order, 1, i - 1)
    /\ \E i \in 0..Len(Order) : done = SubSeq(Order, 1, i)

\* remote pruning is about to start after the five steps before it
C2_Witness ==
    /\ pc = "delete_old"
    /\ done = <<"zip", "auth", "create", "upload", "clean_local">>
    /\ cycles >= 2

\* C3: every invocation of do_backup ends by logging the cycle-end marker and
\* returning normally, whichever step failed.
C3_CycleAlwaysReturnsNormally ==
    pc = "sleep" => LastLog = "FIN" /\ failedAt # "makedirs"

\* C4: every cycle, succeeded, aborted or escaped, is followed by another
\* one: as long as the model follows the loop, cycle n + 1 is started.
C4_LoopNeverStops ==
    \A n \in 0..(MaxCycles - 1) : (cycles = n) ~> (cycles = n + 1)

\* the loop has slept and is back at do_backup after an error escaped the cycle
C4_Witness ==
    /\ pc = "naming"
    /\ failedAt = "makedirs"
    /\ cycles >= 1

\* C5: local pass, keep count k >= 1, distinct creation times: the selection
\* is exactly the n - min(n, k) oldest directories, and a pass that completes
\* has removed exactly these and left the min(n, k) most recent.
C5_LocalKeepsMostRecent ==
    (LocalPassRan /\ local_keep >= 1 /\ DistinctCtimes(LocalBefore)) =>
        LET n == Cardinality(LocalBefore)
            m == Min(n, local_keep)
        IN  /\ Len(to_remove) = n - m
            /\ Range(to_remove) = OldestLocal(LocalBefore, n - m)
            /\ InSeq("clean_local", done) =>
                  /\ removed_local = to_remove
                  /\ Range(local_backup_root) = NewestLocal(LocalBefore, m)
                  /\ Len(local_backup_root) = m

\* four directories with distinct times, k = 2: the two oldest are removed
C5_Witness ==
    /\ InSeq("clean_local", done)
    /\ local_keep = 2
    /\ DistinctCtimes(LocalBefore)
    /\ Len(removed_local) = 2
    /\ Len(local_backup_root) = 2

\* C6: remote pass, keep count k >= 1, distinct creation times: the selection
\* is exactly the n - min(n, k) oldest containers, and a pass that completes
\* has deleted exactly these and left the min(n, k) most recent.
C6_RemoteKeepsMostRecent ==
    (RemotePassRan /\ drive_keep >= 1 /\ DistinctCreatedTimes(RemoteBefore)) =>
        LET n == Cardinality(RemoteBefore)
            m == Min(n, drive_keep)
        IN  /\ Len(to_delete) = n - m
            /\ Range(to_delete) = OldestRemote(RemoteBefore, n - m)
            /\ InSeq("delete_old", done) =>
                  /\ removed_drive = to_delete
                  /\ Range(parent_folder) = NewestRemote(RemoteBefore, m)
                  /\ Len(parent_folder) = m

\* three containers with distinct times, k = 1: the two oldest are deleted
C6_Witness ==
    /\ InSeq("delete_old", done)
    /\ drive_keep = 1
    /\ DistinctCreatedTimes(RemoteBefore)
    /\ Len(removed_drive) = 2
    /\ Len(parent_folder) = 1

\* C7: remote pass: a keep count >= the number of containers selects none,
\* a keep count <= 0 selects every listed container.
C7_RemoteBoundary ==
    RemotePassRan =>
        /\ drive_keep >= Cardinality(RemoteBefore) => to_delete = <<>>
        /\ drive_keep <= 0 => Range(to_delete) = RemoteBefore

\* C8: local pass: a keep count <= 0 selects every directory, a keep count
\* >= the number of directories selects none.
C8_LocalBoundary ==
    LocalPassRan =>
        /\ local_keep <= 0 => Range(to_remove) = LocalBefore
        /\ local_keep >= Cardinality(LocalBefore) => to_remove = <<>>

\* C9: after a pass that deleted its whole selection, the selection computed
\* again on the remaining entries with the same keep count is empty.
C9_PruningIdempotent ==
    /\ InSeq("clean_local", done) =>
          LocalToRemove(local_backup_root, local_keep) = <<>>
    /\ InSeq("delete_old", done) =>
          RemoteToDelete(parent_folder, drive_keep) = <<>>

\* C10: when the deletion of one selected entry fails, the deletion of every
\* other selected entry is still attempted in the same pass.
C10_DeletionBestEffort ==
    /\ failedAt = "rmtree" => AttemptedLocal = to_remove
    /\ failedAt = "delete" => AttemptedRemote = to_delete

\* C11: a delete answered with NotFound, the container being already gone,
\* counts as done: the pass goes on to the other selected containers and the
\* cycle logs no error because of it.
C11_NotFoundIsBenign ==
    failedAt = "notfound" =>
        /\ ~InSeq("ERREUR", log)
        /\ pc \notin {"fin", "sleep"} \/ InSeq("delete_old", done)

\* C13: two cycles that start at least one second apart derive different
\* local folder names and different artifact names, so that the folder a cycle
\* names does not exist yet when the cycle creates it.
C13_NamesDifferBySecond ==
    [][ /\ (pc = "sleep" /\ pc' = "naming" /\ now' - now >= 1) =>
              /\ LocalName(now') # LocalName(now)
              /\ ZipName(now') # ZipName(now)
        /\ (pc = "naming" /\ pc' = "zip") => ~HasDir(LocalName(now)) ]_vars

\* C14: the local pass selects from the local directories with local_keep
\* and leaves the Drive folders alone; the remote pass selects from the Drive
\* folders with drive_keep and leaves the local directories alone.
C14_PassesIndependent ==
    [][ /\ pc = "clean_local" =>
              /\ parent_folder' = parent_folder
              /\ to_delete' = to_delete /\ removed_drive' = removed_drive
              /\ to_remove' = LocalToRemove(local_backup_root, local_keep)
              /\ Range(removed_local') \subseteq Range(local_backup_root)
              /\ Range(local_backup_root') =
                     Range(local_backup_root) \ Range(removed_local')
        /\ pc = "delete_old" =>
              /\ local_backup_root' = local_backup_root
              /\ to_remove' = to_remove /\ removed_local' = removed_local
              /\ failedAt' # "list" =>
                    \E files \in FirstPage(parent_folder) :
                        to_delete' = RemoteToDelete(files, drive_keep)
              /\ Range(removed_drive') \subseteq Range(parent_folder)
              /\ Range(parent_folder') \subseteq Range(parent_folder) ]_vars

\* both passes have run with different keep counts and removed different
\* numbers of entries
C14_Witness ==
    /\ InSeq("delete_old", done)
    /\ local_keep # drive_keep
    /\ removed_local # <<>>
    /\ removed_drive # <<>>
    /\ Len(removed_local) # Len(removed_drive)

\* a name ends with an extension when it is some prefix followed by it
HasSuffix(name, ext) == \E k \in 0..Len(name) : name = SubSeq(name, 1, k) \o ext

\* the files of the source tree that lie below no excluded folder name and
\* end with no excluded extension
Wanted ==
    {p \in folder_to_zip.files :
        /\ \A i \in 1..(Len(p) - 1) : p[i] \notin excluded_folders
        /\ \A x \in excluded_extensions : ~HasSuffix(p[Len(p)], x)}

\* C15: the archive written by custom_zip_folder holds exactly the files of
\* the source tree that lie below no excluded folder and end with no
\* excluded extension, each under its path relative to the source root.
C15_ArchiveIsFilteredTree ==
    InSeq("zip", done) =>
        /\ Cardinality(AtZipPath) = 1
        /\ \A z \in AtZipPath : z.entries = Wanted

\* a file two levels down is left out because of the excluded folder above
\* it, although its own name passes, and the archive holds exactly the other
\* file, under its path relative to the source root
C15_Witness ==
    /\ InSeq("zip", done)
    /\ \E p \in folder_to_zip.files :
          /\ Len(p) = 3
          /\ p[2] \in excluded_folders
          /\ p[1] \notin excluded_folders
          /\ \A x \in excluded_extensions : ~HasSuffix(p[3], x)
          /\ \A z \in AtZipPath : p \notin z.entries
    /\ \E p \in folder_to_zip.files :
          /\ Len(p) = 2
          /\ \A z \in AtZipPath : z.entries = {p}

\* C16: when the source is missing or is no directory, archiving fails with
\* the source-not-found error, no file is left at zip_path, and the cycle
\* ends without authenticating, creating a Drive folder or uploading.
C16_NoSourceNoArtifact ==
    (/\ folder_to_zip.kind # "dir"
     /\ pc \notin {"run", "naming", "zip"}
     /\ failedAt # "makedirs") =>
        /\ failedAt = "notadir"
        /\ AtZipPath = {}
        /\ done = <<>>
        /\ pc \in {"fin", "sleep"}
        /\ parent_folder = <<>>
        /\ InSeq("ERREUR", log)

\* the second cycle of a bot whose source is a plain file has aborted too
C16_Witness ==
    /\ folder_to_zip.kind = "file"
    /\ failedAt = "notadir"
    /\ pc = "sleep"
    /\ cycles = 2

HoldsArtifact == \E i \in DOMAIN parent_folder : parent_folder[i].files # {}

\* C17: with both keep counts >= 1 a pruning pass leaves the local folder and
\* the Drive folder of its own cycle in place, and once a Drive folder holding
\* an uploaded artifact exists, one exists after every step.
C17_LastGoodBackupKept ==
    [][ (local_keep >= 1 /\ drive_keep >= 1) =>
           /\ pc = "clean_local" => HasDir(LocalName(now))'
           /\ pc = "delete_old" =>
                 \E i \in DOMAIN parent_folder' :
                     /\ parent_folder'[i].id = cycles
                     /\ parent_folder'[i].files # {}
           /\ HoldsArtifact => HoldsArtifact' ]_vars

\* the third cycle has pruned older local folders and an empty Drive folder
\* left by an aborted cycle, and a folder holding an artifact is still there
C17_Witness ==
    /\ local_keep >= 1 /\ drive_keep >= 1
    /\ pc = "bilan"
    /\ cycles = 3
    /\ removed_local # <<>>
    /\ \E i \in DOMAIN removed_drive : removed_drive[i].files = {}
    /\ \E i \in DOMAIN removed_drive : removed_drive[i].files # {}
    /\ HoldsArtifact

\* C18: with keep counts >= 0, a cycle whose six steps all returned normally
\* logs BACKUP OK and logs no error.
C18_SuccessIsLogged ==
    (/\ local_keep >= 0 /\ drive_keep >= 0
     /\ pc \in {"fin", "sleep"}
     /\ Len(done) >= 6 /\ SubSeq(done, 1, 6) = SubSeq(Order, 1, 6)) =>
        InSeq("BACKUP OK", log) /\ ~InSeq("ERREUR", log)

\* C19: with both keep counts >= 1, when a cycle has completed successfully
\* at most local_keep local folders and at most drive_keep Drive folders exist.
C19_RetentionBound ==
    (/\ local_keep >= 1 /\ drive_keep >= 1
     /\ pc = "sleep"
     /\ InSeq("bilan", done)) =>
        /\ Len(local_backup_root) <= local_keep
        /\ Len(parent_folder) <= drive_keep

\* the other bot's parent folder lies in this bot's parent folder, or this
\* bot's in the other's
NestedParents ==
    \/ parent_folder_id.id \in peer.parent_folder_id.parents
    \/ peer.parent_folder_id.id \in parent_folder_id.parents

\* what a step of the running bot does to the other bot: nothing
PeerUntouched ==
    /\ peer' = peer
    /\ \A i \in DOMAIN removed_drive' :
          removed_drive'[i].id # peer.parent_folder_id.id
    /\ pc' # "dead"

\* C12 (as stated): for two bots with different local roots and different
\* parent ids, no step of one bot - a pruning pass, a failing call, an aborted
\* cycle - removes a directory or Drive folder of the other bot or changes
\* where the other bot's thread is in its loop.
C12_BotsIndependent ==
    [][ (/\ peer # NoPeer
         /\ parent_folder_id.id # peer.parent_folder_id.id
         /\ self' = self) => PeerUntouched ]_vars

\* C12 (amended): the same for two bots whose parent folders are different
\* and neither lies in the other.
C12_DisjointBotsIndependent ==
    [][ (/\ peer # NoPeer
         /\ parent_folder_id.id # peer.parent_folder_id.id
         /\ ~NestedParents
         /\ self' = self) => PeerUntouched ]_vars

\* neither parent folder lies in the other, the running bot has pruned its
\* earlier Drive folder and its earlier local folder, and the other bot's
\* cycle was aborted at upload while its earlier Drive folder and local
\* folder are still there
C12_Witness ==
    /\ peer # NoPeer
    /\ ~NestedParents
    /\ cycles >= 1 /\ peer.cycles >= 1
    /\ pc = "bilan"
    /\ removed_drive # <<>> /\ removed_local # <<>>
    /\ peer.failedAt = "upload"
    /\ \E i \in DOMAIN peer.parent_folder : peer.parent_folder[i].files # {}
    /\ peer.local_backup_root # <<>>

====
